---- MODULE Spec2Model ----
(***************************************************************************)
(* Model of the tmp-weather forecast pipeline:                             *)
(*   weather.CityForecaster (Forecast + worker goroutine),                 *)
(*   telegram.MsgHandler.Handle (the "info" command),                      *)
(*   storage.WeatherForecastRepo.Upsert (as called by Handle).             *)
(*                                                                         *)
(* Both channels of the forecaster are unbuffered, so a channel operation  *)
(* is a rendezvous: one action moves the sender and the receiver.          *)
(* A Go select with several ready cases picks any of them.                 *)
(* A panic in any goroutine runs that goroutine's deferred calls and then  *)
(* ends the process; other goroutines may still run in between.            *)
(***************************************************************************)
EXTENDS Integers, Sequences, FiniteSets, TLC

\* ------------------------------------------------------------------ bounds
\* Concurrent callers of Forecast.
NumCallers == 2
\* Forecast calls made in a run, over all callers.
MaxCalls == 2
\* Rows the forecasts table may come to hold.
MaxRows == 2
\* Connections of the pool.
MaxConns == 2

Callers == 1..NumCallers
\* City names whose request URL parses. Every call asks for a city of its
\* own (the n-th call for city n), so that a result tells which call it was
\* computed for.
GoodCities == 1..MaxCalls
\* A city name that passes the dispatcher's pattern ("." matches a control
\* character) and makes http.NewRequestWithContext fail.
BadCity == MaxCalls + 1
Cities == GoodCities \cup {BadCity}

\* ------------------------------------------------------------ error values
NilErr == "nil"
ErrCityNotFound == "city not found"
ErrExternal == "external error"
ErrCorruptedCall == "corrupted call"
ErrNewRequest == "new request"
ErrReadBody == "read response body"
ErrUnmarshal == "unmarshal response body"

\* ------------------------------------------------------------ http statuses
StatusNotFound == 404
StatusBadRequest == 400
StatusBadGateway == 502
\* The statuses the switch names; 200 and 500 stand for those it leaves to
\* its default.
ErrorStatuses == {StatusNotFound, StatusBadRequest, StatusBadGateway}

\* What the provider's body is: full JSON, JSON without a "weather" entry,
\* text that is no JSON, JSON with a field of the wrong type, or a body whose
\* read fails.
Bodies == {"ok", "noweather", "syntax", "type", "readfail"}

\* The outcomes of client.Do: (nil, err) on a transport failure, (resp, err)
\* when the redirect policy fails, (resp, nil) otherwise.
NoResp == [err |-> FALSE, isNil |-> TRUE, status |-> 0, body |-> "none"]
TransportFailure == [err |-> TRUE, isNil |-> TRUE, status |-> 0, body |-> "none"]
RedirectFailure ==
  [err |-> TRUE, isNil |-> FALSE, status |-> 302, body |-> "closed"]
\* The body varies where the code may read it; a status that the switch turns
\* into an error comes with one body.
HttpResponses ==
  [err : {FALSE}, isNil : {FALSE}, status : {200}, body : Bodies] \cup
  [err : {FALSE}, isNil : {FALSE}, status : ErrorStatuses \cup {500},
   body : {"noweather"}]
DoOutcomes == {TransportFailure, RedirectFailure} \cup HttpResponses

\* ------------------------------------------------------------------ values
\* weather.Forecast: MadeAt set or zero, len(Weather), and Main: the city
\* whose measurements it holds (0: none).
ZeroForecast == [MadeAt |-> FALSE, Weather |-> 0, Main |-> 0]

\* forecastResult; "city" records the request the worker computed it for
\* (0: none, the zero value read from the closed channel).
ZeroResult == [Forecast |-> ZeroForecast, Err |-> NilErr, city |-> 0]

\* ---------------------------------------------------- repository values
\* An error is the sequence of the errors it carries: nil carries none,
\* errors.Join carries those of both its arguments.
NoErr == <<>>
ErrNoData == <<"no data">>
ErrBeginTx == <<"unable to start transaction">>
ErrExec == <<"exec">>
ErrCheckViolation == <<"check constraint">>
ErrQuery == <<"query">>
ErrRollback == <<"rollback">>
ErrCommit == <<"failed to commit tx">>
Join(e1, e2) == e1 \o e2

\* WeatherForecast values handed to Upsert. Temp, Hum and Wind count
\* thousandths of their unit, MadeAt counts instants: three of the
\* repository's test data that hold a maximum, one whose temperature has a
\* third decimal, and three that the table's CHECKs reject. The later
\* instant may be inserted before the earlier one.
WeatherForecasts ==
  { [City |-> "A", Temp |-> 30000, Hum |-> 2000, Wind |-> 3000, MadeAt |-> 2],
    [City |-> "B", Temp |-> 1000, Hum |-> 90000, Wind |-> 3000, MadeAt |-> 1],
    [City |-> "C", Temp |-> 1000, Hum |-> 2000, Wind |-> 12000, MadeAt |-> 3],
    [City |-> "E", Temp |-> 30004, Hum |-> 2000, Wind |-> 3000, MadeAt |-> 1],
    [City |-> "", Temp |-> 1000, Hum |-> 2000, Wind |-> 3000, MadeAt |-> 1],
    [City |-> "F", Temp |-> 1000, Hum |-> 0, Wind |-> 3000, MadeAt |-> 1],
    [City |-> "G", Temp |-> 1000, Hum |-> 2000, Wind |-> 0, MadeAt |-> 1] }
NoRecord == [City |-> "", Temp |-> 0, Hum |-> 0, Wind |-> 0, MadeAt |-> 0]

\* WeatherForecastStat{}.
ZeroStat ==
  [firstRecordAt |-> 0, total |-> 0,
   maxTempCity |-> "", maxTemp |-> 0,
   maxHumCity |-> "", maxHum |-> 0,
   maxWindCity |-> "", maxWind |-> 0]
ZeroReturn == [stat |-> ZeroStat, err |-> NoErr]
\* A query's outcome: whether it ran, the rows it returned (none or one), the
\* row, and the table it ran on.
NoQuery == [ok |-> FALSE, n |-> 0, row |-> ZeroStat, table |-> <<>>]
NoObs ==
  [valid |-> FALSE, total |-> 0, first |-> 0, begun |-> 0, ok |-> FALSE,
   madeAt |-> 0]

\* What Get returns before it has returned anything, and its errors.
NoPool == [pool |-> "nil", err |-> NoErr]
ErrPrepareConf == <<"prepare conf">>
ErrNewWithConfig == <<"new with config">>
ErrPing == <<"ping">>

VARIABLES
  apiToken,    \* OPENWEATHERMAP_API_TOKEN is set
  appCtx,      \* the context given to NewCityForecaster is cancelled
  wpc,         \* the worker goroutine's position
  cityName,    \* worker: the city name taken from the request channel
  resp,        \* worker: what client.Do returned
  inflight,    \* provider calls issued and not yet answered
  outClosed,   \* the response channel is closed
  crashed,     \* the process has ended on a panic
  cpc,         \* each caller's position
  city,        \* each caller's cityName argument
  ctx,         \* each caller's context is cancelled
  sent,        \* each caller's current call handed its city to the worker
  res,         \* each caller's received forecastResult
  msgID,       \* each caller's current message id
  nmsg,        \* message ids handed out
  upserts,     \* each caller's records passed to Upsert for this message
  reply,       \* each caller's reply text for this message
  store,       \* rows of the forecasts table
  skipped,     \* history: some Forecast call took its ctx.Done() case
  spc,         \* repository: each caller's position in Upsert or Stat
  rec,         \* repository: each caller's WeatherForecast argument
  err,         \* repository: each call's local variable err
  ret,         \* repository: the values each call's return statement set
  qres,        \* repository: what each Stat call's query produced
  mtx,         \* repository: the holder of WeatherForecastRepo.mtx, 0 when free
  conns,       \* repository: pool connections held by transactions
  txs,         \* history: how each call's transaction ended
  obs,         \* history: the last statistics read with no Upsert under
               \* way, and the one Upsert called since
  once,        \* postgres: the state of the sync.Once
  pool,        \* postgres: the package's pool variable
  maxConns,    \* postgres: the size of the repository's pool, 0 while the
               \* repository has none
  gpc,         \* postgres: each caller's position in Get
  gerr,        \* postgres: each Get call's local variable err
  gret         \* postgres: what each Get call returned

vars ==
  <<apiToken, appCtx, wpc, cityName, resp, inflight, outClosed, crashed,
    cpc, city, ctx, sent, res, msgID, nmsg, upserts, reply, store, skipped,
    spc, rec, err, ret, qres, mtx, conns, txs, obs,
    once, pool, maxConns, gpc, gerr, gret>>

\* What package postgres keeps.
poolVars == <<once, pool, maxConns, gpc, gerr, gret>>

\* What the repository's calls keep besides the table.
repoVars == <<spc, rec, err, ret, qres, mtx, conns, txs, obs>>

\* What the forecaster and the dispatcher keep besides the table.
forecastVars ==
  <<apiToken, appCtx, wpc, cityName, resp, inflight, outClosed, crashed,
    cpc, city, ctx, sent, res, msgID, nmsg, upserts, reply, skipped>>

workerVars == <<wpc, cityName, resp, inflight, outClosed>>
callerVars ==
  <<cpc, city, ctx, sent, res, msgID, nmsg, upserts, reply, store, skipped>>

\* -------------------------------------------------------- pure definitions

\* http.NewRequestWithContext fails on a URL that does not parse.
NewRequestFails(c) == c = BadCity

\* Mutant: the switch without its http.StatusBadGateway case.
StatusErr_NoBadGateway(status) ==
  IF status = StatusNotFound THEN ErrCityNotFound
  ELSE IF status = StatusBadRequest THEN ErrExternal
  ELSE NilErr

\* The switch on resp.StatusCode.
StatusErr(status) ==
  IF status = StatusNotFound THEN ErrCityNotFound
  ELSE IF status \in {StatusBadRequest, StatusBadGateway} THEN ErrExternal
  ELSE NilErr

\* io.ReadAll(resp.Body) fails.
ReadFails(body) == body = "readfail"

\* json.Unmarshal(body, &forecast): the error, and what forecast holds after.
Unmarshal(body, c) ==
  CASE body = "ok" ->
         [ok |-> TRUE, forecast |-> [MadeAt |-> FALSE, Weather |-> 1, Main |-> c]]
    [] body = "noweather" ->
         [ok |-> TRUE, forecast |-> [MadeAt |-> FALSE, Weather |-> 0, Main |-> c]]
    [] body = "type" ->
         [ok |-> FALSE, forecast |-> [MadeAt |-> FALSE, Weather |-> 1, Main |-> 0]]
    [] OTHER ->
         [ok |-> FALSE, forecast |-> ZeroForecast]

\* forecast.MadeAt = time.Now()
Stamp(f) == [f EXCEPT !.MadeAt = TRUE]

\* The positions at which the worker is blocked in "out <- forecastResult{..}".
SendPcs ==
  {"sendReqErr", "sendCorrupted", "sendStatus", "sendReadErr", "sendDecodeErr",
   "sendForecast"}

\* The forecastResult the worker sends at each of them.
workerResult(pc, c, r) ==
  CASE pc = "sendReqErr" ->
         [Forecast |-> ZeroForecast, Err |-> ErrNewRequest, city |-> c]
    [] pc = "sendCorrupted" ->
         [Forecast |-> ZeroForecast, Err |-> ErrCorruptedCall, city |-> c]
    [] pc = "sendStatus" ->
         [Forecast |-> ZeroForecast, Err |-> StatusErr(r.status), city |-> c]
    [] pc = "sendReadErr" ->
         [Forecast |-> ZeroForecast, Err |-> ErrReadBody, city |-> c]
    [] pc = "sendDecodeErr" ->
         [Forecast |-> ZeroForecast, Err |-> ErrUnmarshal, city |-> c]
    [] OTHER ->
         [Forecast |-> Stamp(Unmarshal(r.body, c).forecast), Err |-> NilErr,
          city |-> c]

\* Where the worker goes once its send is taken: on to client.Do after the
\* request error, on to the forecast after the decode error (neither has a
\* break), back to the select otherwise.
afterSend(pc) ==
  CASE pc = "sendReqErr" -> "do"
    [] pc = "sendDecodeErr" -> "sendForecast"
    [] OTHER -> "select"

\* Where the worker goes from the response log line: the checks of err and of
\* resp.StatusCode.
classify(r) ==
  IF r.isNil THEN "panic"
  ELSE IF r.err THEN "sendCorrupted"
  ELSE IF StatusErr(r.status) # NilErr THEN "sendStatus"
  ELSE "read"

\* ------------------------------------------------------------------- Init
Init ==
  /\ apiToken \in BOOLEAN
  /\ appCtx = FALSE
  /\ wpc = "start"
  /\ cityName = 0
  /\ resp = NoResp
  /\ inflight = 0
  /\ outClosed = FALSE
  /\ crashed = FALSE
  /\ cpc = [c \in Callers |-> "idle"]
  /\ city = [c \in Callers |-> 0]
  /\ ctx = [c \in Callers |-> FALSE]
  /\ sent = [c \in Callers |-> FALSE]
  /\ res = [c \in Callers |-> ZeroResult]
  /\ msgID = [c \in Callers |-> 0]
  /\ nmsg = 0
  /\ upserts = [c \in Callers |-> <<>>]
  /\ reply = [c \in Callers |-> ""]
  /\ store = <<>>
  /\ skipped = FALSE
  /\ spc = [k \in Callers |-> "idle"]
  /\ rec = [k \in Callers |-> NoRecord]
  /\ err = [k \in Callers |-> NoErr]
  /\ ret = [k \in Callers |-> ZeroReturn]
  /\ qres = [k \in Callers |-> NoQuery]
  /\ mtx = 0
  /\ conns = 0
  /\ txs = [k \in Callers |-> "none"]
  /\ obs = NoObs
  /\ once = "new"
  /\ pool = "nil"
  /\ maxConns = 0
  /\ gpc = [k \in Callers |-> "idle"]
  /\ gerr = [k \in Callers |-> NoErr]
  /\ gret = [k \in Callers |-> NoPool]

\* ----------------------------------------------------------------- worker

\* The goroutine starts: without an API token it returns, and the deferred
\* close(out) runs.
worker_Start ==
  /\ ~crashed
  /\ wpc = "start"
  /\ IF apiToken
       THEN wpc' = "select" /\ UNCHANGED outClosed
       ELSE wpc' = "exited" /\ outClosed' = TRUE
  /\ UNCHANGED <<apiToken, appCtx, cityName, resp, inflight, crashed, callerVars>>
  /\ UNCHANGED repoVars
  /\ UNCHANGED poolVars

\* for { select { ...: the loop comes round after the ctx.Done() case.
worker_For ==
  /\ ~crashed
  /\ wpc = "for"
  /\ wpc' = "select"
  /\ UNCHANGED <<apiToken, appCtx, cityName, resp, inflight, outClosed, crashed,
                 callerVars>>
  /\ UNCHANGED repoVars
  /\ UNCHANGED poolVars

\* case <-ctx.Done(): with an empty body, so the loop goes on.
worker_CtxDone ==
  /\ ~crashed
  /\ wpc = "select"
  /\ appCtx
  /\ wpc' = "for"
  /\ UNCHANGED <<apiToken, appCtx, cityName, resp, inflight, outClosed, crashed,
                 callerVars>>
  /\ UNCHANGED repoVars
  /\ UNCHANGED poolVars

\* Mutant: the call is issued in a goroutine of its own and the loop goes on.
worker_Do_Async ==
  /\ ~crashed
  /\ wpc = "do"
  /\ IF NewRequestFails(cityName)
       THEN wpc' = "panic" /\ outClosed' = TRUE /\ UNCHANGED inflight
       ELSE wpc' = "select" /\ inflight' = inflight + 1 /\ UNCHANGED outClosed
  /\ UNCHANGED <<apiToken, appCtx, cityName, resp, crashed, callerVars>>
  /\ UNCHANGED repoVars
  /\ UNCHANGED poolVars

\* resp, err := client.Do(req): with a nil req it panics, otherwise the call
\* is issued.
worker_Do ==
  /\ ~crashed
  /\ wpc = "do"
  /\ IF NewRequestFails(cityName)
       THEN wpc' = "panic" /\ outClosed' = TRUE /\ UNCHANGED inflight
       ELSE wpc' = "await" /\ inflight' = inflight + 1 /\ UNCHANGED outClosed
  /\ UNCHANGED <<apiToken, appCtx, cityName, resp, crashed, callerVars>>
  /\ UNCHANGED repoVars
  /\ UNCHANGED poolVars

\* client.Do returns; the request carries the worker's context, so the call
\* fails once that context is cancelled.
worker_DoReturn ==
  /\ ~crashed
  /\ wpc = "await"
  /\ inflight > 0
  /\ \E r \in (IF appCtx THEN {TransportFailure} ELSE DoOutcomes) : resp' = r
  /\ inflight' = inflight - 1
  /\ wpc' = "log"
  /\ UNCHANGED <<apiToken, appCtx, cityName, outClosed, crashed, callerVars>>
  /\ UNCHANGED repoVars
  /\ UNCHANGED poolVars

\* The response log line reads resp.StatusCode; then err and the status are
\* checked.
worker_Classify ==
  /\ ~crashed
  /\ wpc = "log"
  /\ wpc' = classify(resp)
  /\ outClosed' = (classify(resp) = "panic")
  /\ UNCHANGED <<apiToken, appCtx, cityName, resp, inflight, crashed, callerVars>>
  /\ UNCHANGED repoVars
  /\ UNCHANGED poolVars

\* body, err := io.ReadAll(resp.Body)
worker_Read ==
  /\ ~crashed
  /\ wpc = "read"
  /\ wpc' = IF ReadFails(resp.body) THEN "sendReadErr" ELSE "decode"
  /\ UNCHANGED <<apiToken, appCtx, cityName, resp, inflight, outClosed, crashed,
                 callerVars>>
  /\ UNCHANGED repoVars
  /\ UNCHANGED poolVars

\* Mutant: the error of json.Unmarshal is not checked.
worker_Decode_Unchecked ==
  /\ ~crashed
  /\ wpc = "decode"
  /\ wpc' = "sendForecast"
  /\ UNCHANGED <<apiToken, appCtx, cityName, resp, inflight, outClosed, crashed,
                 callerVars>>
  /\ UNCHANGED repoVars
  /\ UNCHANGED poolVars

\* json.Unmarshal(body, &forecast)
worker_Decode ==
  /\ ~crashed
  /\ wpc = "decode"
  /\ wpc' = IF Unmarshal(resp.body, cityName).ok THEN "sendForecast"
            ELSE "sendDecodeErr"
  /\ UNCHANGED <<apiToken, appCtx, cityName, resp, inflight, outClosed, crashed,
                 callerVars>>
  /\ UNCHANGED repoVars
  /\ UNCHANGED poolVars

\* ---------------------------------------------------------------- Forecast

\* A call that waits for a result without offering its city name.
Forecast_Call_Receiving(c) ==
  /\ ~crashed
  /\ cpc[c] = "idle"
  /\ nmsg < MaxCalls
  /\ nmsg' = nmsg + 1
  /\ msgID' = [msgID EXCEPT ![c] = nmsg + 1]
  /\ \E n \in {nmsg + 1, BadCity} : city' = [city EXCEPT ![c] = n]
  /\ \E pc \in {"select", "recv"} : cpc' = [cpc EXCEPT ![c] = pc]
  /\ UNCHANGED <<apiToken, appCtx, workerVars, crashed, ctx, sent, res, upserts,
                 reply, store, skipped>>
  /\ UNCHANGED repoVars
  /\ UNCHANGED poolVars

\* A caller (the dispatcher's info command) calls Forecast(ctx, cityName).
Forecast_Call(c) ==
  /\ ~crashed
  /\ cpc[c] = "idle"
  /\ nmsg < MaxCalls
  /\ nmsg' = nmsg + 1
  /\ msgID' = [msgID EXCEPT ![c] = nmsg + 1]
  /\ \E n \in {nmsg + 1, BadCity} : city' = [city EXCEPT ![c] = n]
  /\ cpc' = [cpc EXCEPT ![c] = "select"]
  /\ UNCHANGED <<apiToken, appCtx, workerVars, crashed, ctx, sent, res, upserts,
                 reply, store, skipped>>
  /\ UNCHANGED repoVars
  /\ UNCHANGED poolVars

\* select: case <-ctx.Done()
Forecast_CtxDone(c) ==
  /\ ~crashed
  /\ cpc[c] = "select"
  /\ ctx[c]
  /\ cpc' = [cpc EXCEPT ![c] = "recv"]
  /\ skipped' = TRUE
  /\ UNCHANGED <<apiToken, appCtx, workerVars, crashed, city, ctx, sent, res,
                 msgID, nmsg, upserts, reply, store>>
  /\ UNCHANGED repoVars
  /\ UNCHANGED poolVars

\* Mutant: the request channel has a buffer, so the send goes through while
\* the worker is still blocked on its result.
Forecast_Send_Buffered(c) ==
  /\ ~crashed
  /\ cpc[c] = "select"
  /\ wpc \in {"select"} \cup SendPcs
  /\ cityName' = city[c]
  /\ wpc' = IF NewRequestFails(city[c]) THEN "sendReqErr" ELSE "do"
  /\ sent' = [sent EXCEPT ![c] = TRUE]
  /\ cpc' = [cpc EXCEPT ![c] = "recv"]
  /\ UNCHANGED <<apiToken, appCtx, resp, inflight, outClosed, crashed, city, ctx,
                 res, msgID, nmsg, upserts, reply, store, skipped>>
  /\ UNCHANGED repoVars
  /\ UNCHANGED poolVars

\* select: case f.msgs <- cityName, taken by the worker's case cityName := <-in
Forecast_Send(c) ==
  /\ ~crashed
  /\ cpc[c] = "select"
  /\ wpc = "select"
  /\ cityName' = city[c]
  /\ wpc' = IF NewRequestFails(city[c]) THEN "sendReqErr" ELSE "do"
  /\ sent' = [sent EXCEPT ![c] = TRUE]
  /\ cpc' = [cpc EXCEPT ![c] = "recv"]
  /\ UNCHANGED <<apiToken, appCtx, resp, inflight, outClosed, crashed, city, ctx,
                 res, msgID, nmsg, upserts, reply, store, skipped>>
  /\ UNCHANGED repoVars
  /\ UNCHANGED poolVars

\* res := <-f.res, taking the worker's out <- forecastResult{...}; when the
\* worker's iteration ends with it, cityName and resp go out of scope.
Forecast_Recv(c) ==
  /\ ~crashed
  /\ cpc[c] = "recv"
  /\ wpc \in SendPcs
  /\ res' = [res EXCEPT ![c] = workerResult(wpc, cityName, resp)]
  /\ wpc' = afterSend(wpc)
  /\ cityName' = IF afterSend(wpc) = "select" THEN 0 ELSE cityName
  /\ resp' = IF afterSend(wpc) = "select" THEN NoResp ELSE resp
  /\ cpc' = [cpc EXCEPT ![c] = "ret"]
  /\ UNCHANGED <<apiToken, appCtx, inflight, outClosed, crashed,
                 city, ctx, sent, msgID, nmsg, upserts, reply, store, skipped>>
  /\ UNCHANGED repoVars
  /\ UNCHANGED poolVars

\* res := <-f.res on the closed channel: the zero value.
Forecast_RecvClosed(c) ==
  /\ ~crashed
  /\ cpc[c] = "recv"
  /\ outClosed
  /\ res' = [res EXCEPT ![c] = ZeroResult]
  /\ cpc' = [cpc EXCEPT ![c] = "ret"]
  /\ UNCHANGED <<apiToken, appCtx, workerVars, crashed, city, ctx, sent, msgID,
                 nmsg, upserts, reply, store, skipped>>
  /\ UNCHANGED repoVars
  /\ UNCHANGED poolVars

\* return res.Forecast, res.Err to a caller that is not the dispatcher: its
\* call is over.
Forecast_Return(c) ==
  /\ ~crashed
  /\ cpc[c] = "ret"
  /\ cpc' = [cpc EXCEPT ![c] = "idle"]
  /\ city' = [city EXCEPT ![c] = 0]
  /\ ctx' = [ctx EXCEPT ![c] = FALSE]
  /\ sent' = [sent EXCEPT ![c] = FALSE]
  /\ res' = [res EXCEPT ![c] = ZeroResult]
  /\ msgID' = [msgID EXCEPT ![c] = 0]
  /\ UNCHANGED <<apiToken, appCtx, workerVars, crashed, nmsg, upserts, reply,
                 store, skipped>>
  /\ UNCHANGED repoVars
  /\ UNCHANGED poolVars

\* ------------------------------------------------------------------ Handle

\* A reply text that tells no Forecast error from another.
errorText_AllInternal(e) == "internal error, try again"

\* The reply text for a Forecast error.
errorText(e) ==
  IF e = ErrCityNotFound THEN "unknown city, try again"
  ELSE IF e \in {ErrExternal, ErrCorruptedCall} THEN "forecast error, try again"
  ELSE "internal error, try again"

\* The text of the n-th city name, "" for none.
CityNames == <<"A", "B", "C", "D", "E", "F">>
cityText(n) == IF n \in DOMAIN CityNames THEN CityNames[n] ELSE ""

\* forecast.Main.Temp, forecast.Main.Humidity and forecast.Wind.Speed of the
\* forecast that holds the measurements of city m, in thousandths: the zero
\* values for a forecast that holds none.
Measurements(m) ==
  CASE m = 0 -> [Temp |-> 0, Hum |-> 0, Wind |-> 0]
    [] m = 1 -> [Temp |-> 30000, Hum |-> 2000, Wind |-> 3000]
    [] m = 2 -> [Temp |-> 1000, Hum |-> 90000, Wind |-> 3000]
    [] OTHER -> [Temp |-> 1000, Hum |-> 2000, Wind |-> 12000]

\* The WeatherForecast that Handle builds from the message and the forecast.
\* A forecast's instant is the number of the request it was stamped for, the
\* zero time when it was not stamped.
record(c) ==
  LET f == res[c].Forecast
      m == Measurements(f.Main)
  IN  [MsgID |-> msgID[c], City |-> cityText(city[c]),
       Temp |-> m.Temp, Hum |-> m.Hum, Wind |-> m.Wind,
       MadeAt |-> IF f.MadeAt THEN res[c].city ELSE 0]

\* case "info", after Forecast returned: an error gives its text and no
\* Upsert; otherwise the argument of Upsert is built, which reads
\* forecast.Weather[0] (a panic when Weather is empty), and Upsert is called.
Handle_Info(c) ==
  /\ ~crashed
  /\ maxConns > 0
  /\ cpc[c] = "ret"
  /\ IF res[c].Err # NilErr
       THEN /\ reply' = [reply EXCEPT ![c] = errorText(res[c].Err)]
            /\ cpc' = [cpc EXCEPT ![c] = "reply"]
            /\ UNCHANGED upserts
       ELSE IF res[c].Forecast.Weather = 0
         THEN /\ cpc' = [cpc EXCEPT ![c] = "panic"]
              /\ UNCHANGED <<upserts, reply>>
         ELSE /\ upserts' = [upserts EXCEPT ![c] = Append(@, record(c))]
              /\ cpc' = [cpc EXCEPT ![c] = "upsert"]
              /\ UNCHANGED reply
  /\ UNCHANGED <<apiToken, appCtx, workerVars, crashed, city, ctx, sent, res,
                 msgID, nmsg, store, skipped>>
  /\ UNCHANGED repoVars
  /\ UNCHANGED poolVars

\* Upsert has returned to Handle: its error is logged, if any, and the
\* forecast is rendered.
Handle_InfoReply(c) ==
  /\ ~crashed
  /\ cpc[c] = "upsert"
  /\ spc[c] = "ins_ret"
  /\ obs' = IF ret[c].err = NoErr THEN [obs EXCEPT !.ok = obs.valid] ELSE obs
  /\ spc' = [spc EXCEPT ![c] = "idle"]
  /\ rec' = [rec EXCEPT ![c] = NoRecord]
  /\ err' = [err EXCEPT ![c] = NoErr]
  /\ txs' = [txs EXCEPT ![c] = "none"]
  /\ reply' = [reply EXCEPT ![c] = "forecast"]
  /\ cpc' = [cpc EXCEPT ![c] = "reply"]
  /\ UNCHANGED <<apiToken, appCtx, workerVars, crashed, city, ctx, sent, res,
                 msgID, nmsg, upserts, store, skipped>>
  /\ UNCHANGED <<ret, qres, mtx, conns>>
  /\ UNCHANGED poolVars

\* errors.Is(e, target): e, or an error that e joins, is target.
errorsIs(e, target) ==
  \/ e = target
  \/ Len(e) > 1 /\ \E i \in DOMAIN e : <<e[i]>> = target

\* A reply text for a Stat error that tells no ErrNoData apart.
statErrorText_NoDataUnknown(e) == "could not stat, try again"

\* The reply text for a Stat error: errors.Is(storage.ErrNoData, err).
statErrorText(e) ==
  IF errorsIs(ErrNoData, e) THEN "no stat data" ELSE "could not stat, try again"

\* case "stat": Stat is called.
Handle_Stat(c) ==
  /\ ~crashed
  /\ maxConns > 0
  /\ cpc[c] = "idle"
  /\ cpc' = [cpc EXCEPT ![c] = "stat"]
  /\ UNCHANGED <<apiToken, appCtx, workerVars, crashed, city, ctx, sent, res,
                 msgID, nmsg, upserts, reply, store, skipped>>
  /\ UNCHANGED repoVars
  /\ UNCHANGED poolVars

\* Stat has returned stat, err to Handle: an error gives its text, otherwise
\* the statistics are rendered.
Handle_StatReply(c) ==
  /\ ~crashed
  /\ cpc[c] = "stat"
  /\ spc[c] = "st_ret"
  /\ reply' = [reply EXCEPT ![c] =
                 IF ret[c].err # NoErr THEN statErrorText(ret[c].err) ELSE "stat"]
  /\ cpc' = [cpc EXCEPT ![c] = "reply"]
  /\ spc' = [spc EXCEPT ![c] = "idle"]
  /\ err' = [err EXCEPT ![c] = NoErr]
  /\ qres' = [qres EXCEPT ![c] = NoQuery]
  /\ txs' = [txs EXCEPT ![c] = "none"]
  /\ UNCHANGED <<apiToken, appCtx, workerVars, crashed, city, ctx, sent, res,
                 msgID, nmsg, upserts, store, skipped>>
  /\ UNCHANGED <<rec, ret, mtx, conns, obs>>
  /\ UNCHANGED poolVars

\* p.reply(msg) ends the handling of the update: the loop's next iteration
\* starts with none of this message's values.
Handle_Reply(c) ==
  /\ ~crashed
  /\ cpc[c] = "reply"
  /\ cpc' = [cpc EXCEPT ![c] = "idle"]
  /\ city' = [city EXCEPT ![c] = 0]
  /\ ctx' = [ctx EXCEPT ![c] = FALSE]
  /\ sent' = [sent EXCEPT ![c] = FALSE]
  /\ res' = [res EXCEPT ![c] = ZeroResult]
  /\ msgID' = [msgID EXCEPT ![c] = 0]
  /\ upserts' = [upserts EXCEPT ![c] = <<>>]
  /\ reply' = [reply EXCEPT ![c] = ""]
  /\ UNCHANGED <<apiToken, appCtx, workerVars, crashed, nmsg, store, skipped>>
  /\ ret' = [ret EXCEPT ![c] = ZeroReturn]
  /\ UNCHANGED <<spc, rec, err, qres, mtx, conns, txs, obs>>
  /\ UNCHANGED poolVars

\* ------------------------------------------------------------- environment

\* The caller's context is cancelled while its call waits.
CancelCtx(c) ==
  /\ ~crashed
  /\ cpc[c] \in {"select", "recv"}
  /\ ~ctx[c]
  /\ ctx' = [ctx EXCEPT ![c] = TRUE]
  /\ UNCHANGED <<apiToken, appCtx, workerVars, crashed, cpc, city, sent, res,
                 msgID, nmsg, upserts, reply, store, skipped>>
  /\ UNCHANGED repoVars
  /\ UNCHANGED poolVars

\* The context given to NewCityForecaster is cancelled.
CancelAppCtx ==
  /\ ~crashed
  /\ ~appCtx
  /\ appCtx' = TRUE
  /\ UNCHANGED <<apiToken, workerVars, crashed, callerVars>>
  /\ UNCHANGED repoVars
  /\ UNCHANGED poolVars

\* An unrecovered panic ends the process.
ProcessExit ==
  /\ ~crashed
  /\ (wpc = "panic" \/ \E c \in Callers : cpc[c] = "panic")
  /\ crashed' = TRUE
  /\ UNCHANGED <<apiToken, appCtx, workerVars, callerVars>>
  /\ UNCHANGED repoVars
  /\ UNCHANGED poolVars

\* -------------------------------------------------------------- repository

\* The CHECKs of the forecasts table.
forecastsChecks(f) == f.City # "" /\ f.Hum > 0 /\ f.Wind > 0

\* finishTransaction: a rollback for an error, a commit for none; ok says
\* whether that rollback or commit went through.
finishTransaction(e, ok) ==
  IF e # NoErr
    THEN IF ok THEN e ELSE Join(e, ErrRollback)
    ELSE IF ok THEN NoErr ELSE ErrCommit

\* How the transaction ended.
txEnd(e, ok) ==
  IF e # NoErr
    THEN IF ok THEN "rolledBack" ELSE "rollbackFailed"
    ELSE IF ok THEN "committed" ELSE "commitFailed"

SetMax(S) == CHOOSE x \in S : \A y \in S : y <= x
SetMin(S) == CHOOSE x \in S : \A y \in S : x <= y

\* ::numeric(10, 2) of a value in thousandths: rounded to hundredths, half
\* away from zero.
Numeric2(v) ==
  IF v >= 0 THEN ((v + 5) \div 10) * 10 ELSE 0 - (((0 - v) + 5) \div 10) * 10

\* A top_* subquery that pairs the highest value with any city of the table.
topRows_AnyCity(rows, metric) ==
  LET cities == { rows[i].City : i \in DOMAIN rows }
      top == SetMax({ Numeric2(rows[i][metric]) : i \in DOMAIN rows })
  IN  { [city |-> c, value |-> top] : c \in cities }

\* A top_* subquery: MAX per city cast to numeric(10, 2), ORDER BY value
\* DESC LIMIT 1; every city of the highest value may be the row returned.
topRows(rows, metric) ==
  LET cities == { rows[i].City : i \in DOMAIN rows }
      best(c) ==
        Numeric2(SetMax({ rows[i][metric] : i \in { j \in DOMAIN rows : rows[j].City = c } }))
      top == SetMax({ best(c) : c \in cities })
  IN  { [city |-> c, value |-> top] : c \in { d \in cities : best(d) = top } }

\* A query whose first_record is the row inserted first.
getWeatherForecastStat_FirstInserted(rows) ==
  IF rows = <<>> THEN {}
  ELSE { [firstRecordAt |-> rows[1].MadeAt,
          total |-> Len(rows),
          maxTempCity |-> t.city, maxTemp |-> t.value,
          maxHumCity |-> h.city, maxHum |-> h.value,
          maxWindCity |-> w.city, maxWind |-> w.value] :
          t \in topRows(rows, "Temp"), h \in topRows(rows, "Hum"),
          w \in topRows(rows, "Wind") }

\* getWeatherForecastStat: the rows the query may return for a table, none
\* for an empty table (the join of subqueries without rows).
getWeatherForecastStat(rows) ==
  IF rows = <<>> THEN {}
  ELSE { [firstRecordAt |-> SetMin({ rows[i].MadeAt : i \in DOMAIN rows }),
          total |-> Len(rows),
          maxTempCity |-> t.city, maxTemp |-> t.value,
          maxHumCity |-> h.city, maxHum |-> h.value,
          maxWindCity |-> w.city, maxWind |-> w.value] :
          t \in topRows(rows, "Temp"), h \in topRows(rows, "Hum"),
          w \in topRows(rows, "Wind") }

\* NewWeatherForecastRepo: the repository gets its pool, of whatever size
\* POSTGRES_MAX_CONNS gave it.
NewWeatherForecastRepo ==
  /\ maxConns = 0
  /\ \E m \in 1..MaxConns : maxConns' = m
  /\ UNCHANGED <<once, pool, gpc, gerr, gret>>
  /\ UNCHANGED <<forecastVars, store, repoVars>>

\* The callers with an open Upsert transaction, and those inside Upsert.
inserting == { k \in Callers : spc[k] \in {"ins_tx", "ins_defer"} }
inUpsert == { k \in Callers : spc[k] \in {"ins_tx", "ins_defer", "ins_ret"} }

\* Upsert is called and pool.BeginTx returns: with an error Upsert returns
\* it wrapped, otherwise the transaction holds a connection of the pool.
Upsert_BeginTxOf(k, forecasts) ==
  /\ maxConns > 0
  /\ spc[k] = "idle"
  /\ Len(store) + Cardinality(inserting) < MaxRows
  /\ \E f \in forecasts, ok \in BOOLEAN :
       /\ rec' = [rec EXCEPT ![k] = f]
       /\ obs' = IF obs.valid /\ obs.begun = 0
                   THEN [obs EXCEPT !.begun = 1, !.madeAt = f.MadeAt]
                   ELSE NoObs
       /\ IF ok
            THEN /\ conns < maxConns
                 /\ conns' = conns + 1
                 /\ spc' = [spc EXCEPT ![k] = "ins_tx"]
                 /\ txs' = [txs EXCEPT ![k] = "open"]
                 /\ UNCHANGED <<err, ret>>
            ELSE /\ spc' = [spc EXCEPT ![k] = "ins_ret"]
                 /\ err' = [err EXCEPT ![k] = ErrBeginTx]
                 /\ ret' = [ret EXCEPT ![k].err = ErrBeginTx]
                 /\ UNCHANGED <<conns, txs>>
  /\ UNCHANGED <<store, qres, mtx>>
  /\ UNCHANGED forecastVars
  /\ UNCHANGED poolVars

\* Upsert called by any goroutine, with any of the forecasts.
Upsert_BeginTx(k) == Upsert_BeginTxOf(k, WeatherForecasts)

\* An INSERT into a table without CHECKs.
Upsert_Exec_NoChecks(k) ==
  /\ spc[k] = "ins_tx"
  /\ \E dbOk \in BOOLEAN :
       LET e == IF ~dbOk THEN ErrExec ELSE NoErr
       IN  /\ err' = [err EXCEPT ![k] = e]
           /\ ret' = [ret EXCEPT ![k].err = e]
  /\ spc' = [spc EXCEPT ![k] = "ins_defer"]
  /\ UNCHANGED <<store, rec, qres, mtx, conns, txs, obs>>
  /\ UNCHANGED forecastVars
  /\ UNCHANGED poolVars

\* tx.Exec runs the INSERT, and return err sets Upsert's result to what Exec
\* returned; the deferred function has not run yet.
Upsert_Exec(k) ==
  /\ spc[k] = "ins_tx"
  /\ \E dbOk \in BOOLEAN :
       LET e == IF ~dbOk THEN ErrExec
                ELSE IF ~forecastsChecks(rec[k]) THEN ErrCheckViolation
                ELSE NoErr
       IN  /\ err' = [err EXCEPT ![k] = e]
           /\ ret' = [ret EXCEPT ![k].err = e]
  /\ spc' = [spc EXCEPT ![k] = "ins_defer"]
  /\ UNCHANGED <<store, rec, qres, mtx, conns, txs, obs>>
  /\ UNCHANGED forecastVars
  /\ UNCHANGED poolVars

\* A deferred function that commits whatever the statement returned.
Upsert_Finish_CommitAlways(k) ==
  /\ spc[k] = "ins_defer"
  /\ \E ok \in BOOLEAN :
       /\ err' = [err EXCEPT ![k] = finishTransaction(NoErr, ok)]
       /\ txs' = [txs EXCEPT ![k] =
                    IF @ = "open" THEN txEnd(NoErr, ok) ELSE "twice"]
       /\ store' = IF ok THEN Append(store, rec[k]) ELSE store
  /\ conns' = conns - 1
  /\ spc' = [spc EXCEPT ![k] = "ins_ret"]
  /\ UNCHANGED <<rec, ret, qres, mtx, obs>>
  /\ UNCHANGED forecastVars
  /\ UNCHANGED poolVars

\* The deferred function: finishTransaction commits or rolls back and its
\* result is assigned to the local err; Upsert's result is not named, so it
\* stays what the return statement set.
Upsert_Finish(k) ==
  /\ spc[k] = "ins_defer"
  /\ \E ok \in BOOLEAN :
       /\ err' = [err EXCEPT ![k] = finishTransaction(err[k], ok)]
       /\ txs' = [txs EXCEPT ![k] =
                    IF @ = "open" THEN txEnd(err[k], ok) ELSE "twice"]
       /\ store' = IF err[k] = NoErr /\ ok THEN Append(store, rec[k]) ELSE store
  /\ conns' = conns - 1
  /\ spc' = [spc EXCEPT ![k] = "ins_ret"]
  /\ UNCHANGED <<rec, ret, qres, mtx, obs>>
  /\ UNCHANGED forecastVars
  /\ UNCHANGED poolVars

\* Upsert has returned ret[k].err to its caller.
Upsert_Done(k) ==
  /\ spc[k] = "ins_ret"
  /\ obs' = IF ret[k].err = NoErr THEN [obs EXCEPT !.ok = obs.valid] ELSE obs
  /\ spc' = [spc EXCEPT ![k] = "idle"]
  /\ rec' = [rec EXCEPT ![k] = NoRecord]
  /\ err' = [err EXCEPT ![k] = NoErr]
  /\ ret' = [ret EXCEPT ![k] = ZeroReturn]
  /\ txs' = [txs EXCEPT ![k] = "none"]
  /\ UNCHANGED <<store, qres, mtx, conns>>
  /\ UNCHANGED forecastVars
  /\ UNCHANGED poolVars

\* Stat is called and pool.BeginTx returns.
Stat_BeginTx(k) ==
  /\ maxConns > 0
  /\ spc[k] = "idle"
  /\ \E ok \in BOOLEAN :
       IF ok
         THEN /\ conns < maxConns
              /\ conns' = conns + 1
              /\ spc' = [spc EXCEPT ![k] = "st_tx"]
              /\ txs' = [txs EXCEPT ![k] = "open"]
              /\ UNCHANGED <<err, ret>>
         ELSE /\ spc' = [spc EXCEPT ![k] = "st_ret"]
              /\ err' = [err EXCEPT ![k] = ErrBeginTx]
              /\ ret' = [ret EXCEPT ![k] = [stat |-> ZeroStat, err |-> ErrBeginTx]]
              /\ UNCHANGED <<conns, txs>>
  /\ UNCHANGED <<store, rec, qres, mtx, obs>>
  /\ UNCHANGED forecastVars
  /\ UNCHANGED poolVars

\* A lock that does not wait for its holder.
Stat_Lock_NoWait(k) ==
  /\ spc[k] = "st_tx"
  /\ mtx' = k
  /\ spc' = [spc EXCEPT ![k] = "st_locked"]
  /\ UNCHANGED <<store, rec, err, ret, qres, conns, txs, obs>>
  /\ UNCHANGED forecastVars
  /\ UNCHANGED poolVars

\* r.mtx.Lock().
Stat_Lock(k) ==
  /\ spc[k] = "st_tx"
  /\ mtx = 0
  /\ mtx' = k
  /\ spc' = [spc EXCEPT ![k] = "st_locked"]
  /\ UNCHANGED <<store, rec, err, ret, qres, conns, txs, obs>>
  /\ UNCHANGED forecastVars
  /\ UNCHANGED poolVars

\* The rows that open transactions have inserted and not committed.
pending ==
  { rec[j] : j \in { i \in Callers : spc[i] = "ins_defer" /\ err[i] = NoErr } }

\* A query that also sees a row of an open transaction.
Stat_Query_ReadUncommitted(k) ==
  /\ spc[k] = "st_locked"
  /\ \E t \in {store} \cup { Append(store, p) : p \in pending } :
     \E r \in getWeatherForecastStat(t) :
       qres' = [qres EXCEPT ![k] = [ok |-> TRUE, n |-> 1, row |-> r, table |-> store]]
  /\ obs' = NoObs
  /\ spc' = [spc EXCEPT ![k] = "st_query"]
  /\ UNCHANGED <<store, rec, err, ret, mtx, conns, txs>>
  /\ UNCHANGED forecastVars
  /\ UNCHANGED poolVars

\* tx.QueryRow: the statement runs on the committed rows.
Stat_Query(k) ==
  /\ spc[k] = "st_locked"
  /\ \E q \in
         { [ok |-> FALSE, n |-> 0, row |-> ZeroStat, table |-> store] } \cup
         ( IF getWeatherForecastStat(store) = {}
             THEN { [ok |-> TRUE, n |-> 0, row |-> ZeroStat, table |-> store] }
             ELSE { [ok |-> TRUE, n |-> 1, row |-> r, table |-> store] :
                    r \in getWeatherForecastStat(store) } ) :
       /\ qres' = [qres EXCEPT ![k] = q]
       /\ obs' = IF q.ok
                   THEN IF inUpsert = {}
                          THEN [valid |-> TRUE, total |-> q.row.total,
                                first |-> q.row.firstRecordAt, begun |-> 0,
                                ok |-> FALSE, madeAt |-> 0]
                          ELSE NoObs
                   ELSE obs
  /\ spc' = [spc EXCEPT ![k] = "st_query"]
  /\ UNCHANGED <<store, rec, err, ret, mtx, conns, txs>>
  /\ UNCHANGED forecastVars
  /\ UNCHANGED poolVars

\* A scan that hands pgx.ErrNoRows on as it is.
Stat_Scan_NoRowsKept(k) ==
  /\ spc[k] = "st_query"
  /\ LET e == IF ~qres[k].ok THEN ErrQuery
              ELSE IF qres[k].n = 0 THEN <<"no rows in result set">>
              ELSE NoErr
         stat == IF e = NoErr THEN qres[k].row ELSE ZeroStat
     IN  /\ err' = [err EXCEPT ![k] = e]
         /\ ret' = [ret EXCEPT ![k] = [stat |-> stat, err |-> e]]
  /\ mtx' = 0
  /\ spc' = [spc EXCEPT ![k] = "st_defer"]
  /\ UNCHANGED <<store, rec, qres, conns, txs, obs>>
  /\ UNCHANGED forecastVars
  /\ UNCHANGED poolVars

\* A Stat that keeps the mutex when its scan returned an error.
Stat_Scan_NoUnlockOnError(k) ==
  /\ spc[k] = "st_query"
  /\ LET e == IF ~qres[k].ok THEN ErrQuery
              ELSE IF qres[k].n = 0 THEN ErrNoData
              ELSE NoErr
         stat == IF e = NoErr THEN qres[k].row ELSE ZeroStat
     IN  /\ err' = [err EXCEPT ![k] = e]
         /\ ret' = [ret EXCEPT ![k] = [stat |-> stat, err |-> e]]
         /\ mtx' = IF e = NoErr THEN 0 ELSE mtx
  /\ spc' = [spc EXCEPT ![k] = "st_defer"]
  /\ UNCHANGED <<store, rec, qres, conns, txs, obs>>
  /\ UNCHANGED forecastVars
  /\ UNCHANGED poolVars

\* row.Scan fills stat, pgx.ErrNoRows becomes ErrNoData, return stat, err sets
\* Stat's results, and the deferred r.mtx.Unlock() runs.
Stat_Scan(k) ==
  /\ spc[k] = "st_query"
  /\ LET e == IF ~qres[k].ok THEN ErrQuery
              ELSE IF qres[k].n = 0 THEN ErrNoData
              ELSE NoErr
         stat == IF e = NoErr THEN qres[k].row ELSE ZeroStat
     IN  /\ err' = [err EXCEPT ![k] = e]
         /\ ret' = [ret EXCEPT ![k] = [stat |-> stat, err |-> e]]
  /\ mtx' = 0
  /\ spc' = [spc EXCEPT ![k] = "st_defer"]
  /\ UNCHANGED <<store, rec, qres, conns, txs, obs>>
  /\ UNCHANGED forecastVars
  /\ UNCHANGED poolVars

\* A deferred function of Stat whose rollback empties the table.
Stat_Finish_Truncate(k) ==
  /\ spc[k] = "st_defer"
  /\ \E ok \in BOOLEAN :
       /\ err' = [err EXCEPT ![k] = finishTransaction(err[k], ok)]
       /\ txs' = [txs EXCEPT ![k] =
                    IF @ = "open" THEN txEnd(err[k], ok) ELSE "twice"]
  /\ store' = IF err[k] # NoErr THEN <<>> ELSE store
  /\ conns' = conns - 1
  /\ spc' = [spc EXCEPT ![k] = "st_ret"]
  /\ UNCHANGED <<rec, ret, qres, mtx, obs>>
  /\ UNCHANGED forecastVars
  /\ UNCHANGED poolVars

\* The deferred function of Stat: as in Upsert, its assignment to err does
\* not reach Stat's results.
Stat_Finish(k) ==
  /\ spc[k] = "st_defer"
  /\ \E ok \in BOOLEAN :
       /\ err' = [err EXCEPT ![k] = finishTransaction(err[k], ok)]
       /\ txs' = [txs EXCEPT ![k] =
                    IF @ = "open" THEN txEnd(err[k], ok) ELSE "twice"]
  /\ conns' = conns - 1
  /\ spc' = [spc EXCEPT ![k] = "st_ret"]
  /\ UNCHANGED <<store, rec, ret, qres, mtx, obs>>
  /\ UNCHANGED forecastVars
  /\ UNCHANGED poolVars

\* Stat has returned ret[k] to its caller.
Stat_Done(k) ==
  /\ spc[k] = "st_ret"
  /\ spc' = [spc EXCEPT ![k] = "idle"]
  /\ err' = [err EXCEPT ![k] = NoErr]
  /\ ret' = [ret EXCEPT ![k] = ZeroReturn]
  /\ qres' = [qres EXCEPT ![k] = NoQuery]
  /\ txs' = [txs EXCEPT ![k] = "none"]
  /\ UNCHANGED <<store, rec, mtx, conns, obs>>
  /\ UNCHANGED forecastVars
  /\ UNCHANGED poolVars

\* ---------------------------------------------------------------- postgres

\* Get is called: var err error.
Get_Call(k) ==
  /\ gpc[k] = "idle"
  /\ gpc' = [gpc EXCEPT ![k] = "once"]
  /\ gerr' = [gerr EXCEPT ![k] = NoErr]
  /\ UNCHANGED <<once, pool, maxConns, gret>>
  /\ UNCHANGED <<forecastVars, store, repoVars>>

\* once.Do for the first caller: the function starts, and the callers that
\* come while it runs wait for it.
Get_OnceDo(k) ==
  /\ gpc[k] = "once"
  /\ once = "new"
  /\ once' = "running"
  /\ gpc' = [gpc EXCEPT ![k] = "conf"]
  /\ UNCHANGED <<pool, maxConns, gerr, gret>>
  /\ UNCHANGED <<forecastVars, store, repoVars>>

\* once.Do after the function has run: nothing is done, err stays nil.
Get_OnceSkip(k) ==
  /\ gpc[k] = "once"
  /\ once = "done"
  /\ gpc' = [gpc EXCEPT ![k] = "return"]
  /\ UNCHANGED <<once, pool, maxConns, gerr, gret>>
  /\ UNCHANGED <<forecastVars, store, repoVars>>

\* cfg, err = prepareConf(); an error ends the function.
Get_PrepareConf(k) ==
  /\ gpc[k] = "conf"
  /\ \E ok \in BOOLEAN :
       IF ok
         THEN /\ gpc' = [gpc EXCEPT ![k] = "new"]
              /\ UNCHANGED <<once, gerr>>
         ELSE /\ gerr' = [gerr EXCEPT ![k] = ErrPrepareConf]
              /\ once' = "done"
              /\ gpc' = [gpc EXCEPT ![k] = "return"]
  /\ UNCHANGED <<pool, maxConns, gret>>
  /\ UNCHANGED <<forecastVars, store, repoVars>>

\* pool, err = pgxpool.NewWithConfig(...); an error ends the function.
Get_NewWithConfig(k) ==
  /\ gpc[k] = "new"
  /\ \E ok \in BOOLEAN :
       IF ok
         THEN /\ pool' = "created"
              /\ gpc' = [gpc EXCEPT ![k] = "ping"]
              /\ UNCHANGED <<once, gerr>>
         ELSE /\ pool' = "nil"
              /\ gerr' = [gerr EXCEPT ![k] = ErrNewWithConfig]
              /\ once' = "done"
              /\ gpc' = [gpc EXCEPT ![k] = "return"]
  /\ UNCHANGED <<maxConns, gret>>
  /\ UNCHANGED <<forecastVars, store, repoVars>>

\* err = pool.Ping(ctx), and the function ends.
Get_Ping(k) ==
  /\ gpc[k] = "ping"
  /\ \E ok \in BOOLEAN :
       IF ok
         THEN /\ pool' = "pinged"
              /\ gerr' = gerr
         ELSE /\ pool' = pool
              /\ gerr' = [gerr EXCEPT ![k] = ErrPing]
  /\ once' = "done"
  /\ gpc' = [gpc EXCEPT ![k] = "return"]
  /\ UNCHANGED <<maxConns, gret>>
  /\ UNCHANGED <<forecastVars, store, repoVars>>

\* return pool, err
Get_Return(k) ==
  /\ gpc[k] = "return"
  /\ gret' = [gret EXCEPT ![k] = [pool |-> pool, err |-> gerr[k]]]
  /\ gpc' = [gpc EXCEPT ![k] = "ret"]
  /\ UNCHANGED <<once, pool, maxConns, gerr>>
  /\ UNCHANGED <<forecastVars, store, repoVars>>

\* The caller has Get's results.
Get_Done(k) ==
  /\ gpc[k] = "ret"
  /\ gpc' = [gpc EXCEPT ![k] = "idle"]
  /\ gerr' = [gerr EXCEPT ![k] = NoErr]
  /\ gret' = [gret EXCEPT ![k] = NoPool]
  /\ UNCHANGED <<once, pool, maxConns>>
  /\ UNCHANGED <<forecastVars, store, repoVars>>

\* ---------------------------------------------------------- specifications
workerNext ==
  \/ worker_Start
  \/ worker_For
  \/ worker_CtxDone
  \/ worker_Do
  \/ worker_DoReturn
  \/ worker_Classify
  \/ worker_Read
  \/ worker_Decode

\* The steps of a Forecast call that is under way.
forecastRun(c) ==
  \/ Forecast_CtxDone(c)
  \/ Forecast_Send(c)
  \/ Forecast_Recv(c)
  \/ Forecast_RecvClosed(c)

\* Any number of goroutines call Forecast.
Next ==
  \/ workerNext
  \/ \E c \in Callers : Forecast_Call(c) \/ forecastRun(c) \/ Forecast_Return(c)
  \/ \E c \in Callers : CancelCtx(c)
  \/ CancelAppCtx
  \/ ProcessExit

Spec == Init /\ [][Next]_vars

\* The program as main wires it: the dispatcher's loop is the one caller,
\* and it handles one update after the other.
Dispatcher == 1

\* Upsert under way in the dispatcher's info command, with the forecast it
\* built, and Stat under way in its stat command.
Handle_Upsert(c) ==
  \/ ~crashed /\ cpc[c] = "upsert" /\ Upsert_BeginTxOf(c, {record(c)})
  \/ ~crashed /\ Upsert_Exec(c)
  \/ ~crashed /\ Upsert_Finish(c)

Handle_StatCall(c) ==
  \/ ~crashed /\ cpc[c] = "stat" /\ Stat_BeginTx(c)
  \/ ~crashed /\ Stat_Lock(c)
  \/ ~crashed /\ Stat_Query(c)
  \/ ~crashed /\ Stat_Scan(c)
  \/ ~crashed /\ Stat_Finish(c)

\* A dispatcher that starts a goroutine for every update.
SeqNext_Concurrent ==
  \/ workerNext
  \/ NewWeatherForecastRepo
  \/ \E c \in Callers :
       \/ Forecast_Call(c)
       \/ forecastRun(c)
       \/ Handle_Info(c)
       \/ Handle_Upsert(c)
       \/ Handle_InfoReply(c)
       \/ Handle_Stat(c)
       \/ Handle_StatCall(c)
       \/ Handle_StatReply(c)
       \/ Handle_Reply(c)
       \/ CancelCtx(c)
  \/ CancelAppCtx
  \/ ProcessExit

SeqNext ==
  \/ workerNext
  \/ NewWeatherForecastRepo
  \/ Forecast_Call(Dispatcher)
  \/ forecastRun(Dispatcher)
  \/ Handle_Info(Dispatcher)
  \/ Handle_Upsert(Dispatcher)
  \/ Handle_InfoReply(Dispatcher)
  \/ Handle_Stat(Dispatcher)
  \/ Handle_StatCall(Dispatcher)
  \/ Handle_StatReply(Dispatcher)
  \/ Handle_Reply(Dispatcher)
  \/ CancelCtx(Dispatcher)
  \/ CancelAppCtx
  \/ ProcessExit

SeqSpec == Init /\ [][SeqNext]_vars

\* Goroutines that can run do run; contexts are cancelled and calls are made
\* only when the environment chooses.
FairSpec ==
  /\ Spec
  /\ WF_vars(workerNext)
  /\ \A c \in Callers : WF_vars(forecastRun(c) \/ Forecast_Return(c))
  /\ WF_vars(ProcessExit)

\* Any number of goroutines call Upsert and Stat of one repository.
RepoNext ==
  \/ NewWeatherForecastRepo
  \/ \E k \in Callers :
       \/ Upsert_BeginTx(k)
       \/ Upsert_Exec(k)
       \/ Upsert_Finish(k)
       \/ Upsert_Done(k)
       \/ Stat_BeginTx(k)
       \/ Stat_Lock(k)
       \/ Stat_Query(k)
       \/ Stat_Scan(k)
       \/ Stat_Finish(k)
       \/ Stat_Done(k)

RepoSpec == Init /\ [][RepoNext]_vars

\* The repository's goroutines run: a transaction under way takes its next
\* step while the storage engine answers, and a caller that waits for the
\* mutex gets it (sync.Mutex hands the lock to a waiter that starves).
repoRun(k) ==
  \/ Upsert_Exec(k)
  \/ Upsert_Finish(k)
  \/ Stat_Query(k)
  \/ Stat_Scan(k)
  \/ Stat_Finish(k)

\* The same goroutines with the forecasts they insert drawn from one that
\* the table's CHECKs accept and one that they reject: neither the mutex nor
\* the pool depends on a forecast's values beyond that.
FairRepoNext ==
  \/ NewWeatherForecastRepo
  \/ \E k \in Callers :
       \/ Upsert_BeginTx(k) /\ rec'[k].City \in {"A", ""}
       \/ Upsert_Exec(k)
       \/ Upsert_Finish(k)
       \/ Upsert_Done(k)
       \/ Stat_BeginTx(k)
       \/ Stat_Lock(k)
       \/ Stat_Query(k)
       \/ Stat_Scan(k)
       \/ Stat_Finish(k)
       \/ Stat_Done(k)

FairRepoSpec ==
  /\ Init /\ [][FairRepoNext]_vars
  /\ \A k \in Callers : WF_vars(repoRun(k)) /\ SF_vars(Stat_Lock(k))

\* Any number of goroutines call postgres.Get.
GetNext ==
  \E k \in Callers :
    \/ Get_Call(k)
    \/ Get_OnceDo(k)
    \/ Get_OnceSkip(k)
    \/ Get_PrepareConf(k)
    \/ Get_NewWithConfig(k)
    \/ Get_Ping(k)
    \/ Get_Return(k)
    \/ Get_Done(k)

GetSpec == Init /\ [][GetNext]_vars

\* ------------------------------------------------------------------ claims

\* C1: whatever the number of concurrent Forecast callers and the order of
\* their sends and receives, at most one call to the provider is in flight.
C1_OneInFlight == inflight <= 1

\* A provider call is in flight for one caller while another caller is in
\* its select, trying to send.
C1_Witness ==
  /\ inflight = 1
  /\ \E c, d \in Callers :
       c # d /\ cpc[c] = "recv" /\ sent[c] /\ cpc[d] = "select"

\* C2: the calls of a single caller follow one another, and every call
\* returns the result the worker computed for that call's own city, whatever
\* the provider's outcome of the earlier calls was. Stated for the worker up
\* and running (API token set, response channel open).
C2_OwnResult ==
  (apiToken /\ ~outClosed /\ cpc[Dispatcher] = "ret")
    => res[Dispatcher].city = city[Dispatcher]

\* C3: once the context given to NewCityForecaster is cancelled, the worker
\* goroutine eventually leaves its loop and closes the response channel.
C3_WorkerExits == appCtx ~> outClosed

\* C4: a Forecast call whose context is cancelled while it waits (before its
\* send or before its receive completes) eventually returns, even when the
\* worker produces no further result.
C4_CancelledCallReturns ==
  \A c \in Callers :
    (ctx[c] /\ cpc[c] \in {"select", "recv"})
      ~> (cpc[c] \notin {"select", "recv"} \/ crashed)

\* C5: a caller whose context is already cancelled when its city name has
\* not yet been sent never hands that city name to the worker.
C5_NoSendOnceCancelled ==
  [][\A c \in Callers : (cpc[c] = "select" /\ ctx[c]) => ~sent'[c]]_vars

\* Forecast has returned to c a result computed for another call's city.
CrossTalk(c) == cpc[c] = "ret" /\ res[c].city \notin {0, city[c]}

\* C6: with two or more concurrent callers on the shared unbuffered channels
\* a caller can receive the result the worker computed for another caller's
\* city (the witness is such a state); it comes about only in runs in which
\* some call left its select by the ctx.Done() case and went on to receive
\* without having sent.
C6_CrossTalkOnlyAfterSkippedSend == (\E c \in Callers : CrossTalk(c)) => skipped

\* Caller c holds the result of the city that d sent, and d still waits for it.
C6_Witness ==
  \E c, d \in Callers :
    /\ c # d
    /\ CrossTalk(c)
    /\ res[c].city = city[d]
    /\ cpc[d] = "recv"
    /\ sent[d]

\* C7: when the outbound call fails at transport level (client.Do returns an
\* error and no response), the worker stays alive and goes on to send
\* CorruptedCall to the call that issued the request.
C7_CorruptedCallOnTransportFailure ==
  (resp.err /\ resp.isNil) => wpc \in {"log", "sendCorrupted"}

\* The worker is past json.Unmarshal on a body that does not decode.
Undecodable ==
  /\ wpc \in {"sendDecodeErr", "sendForecast"}
  /\ ~Unmarshal(resp.body, cityName).ok

\* C8: when the provider's body cannot be JSON-decoded, the Forecast call
\* that issued the request returns a wrapped decode error (not nil, and none
\* of CityNotFound, External, CorruptedCall) and an empty forecast.
C8_DecodeError ==
  [][\A c \in Callers :
       (cpc[c] = "recv" /\ sent[c] /\ cpc'[c] = "ret" /\ Undecodable)
         => /\ res'[c].Err = ErrUnmarshal
            /\ res'[c].Err \notin
                 {NilErr, ErrCityNotFound, ErrExternal, ErrCorruptedCall}
            /\ res'[c].Forecast = ZeroForecast]_vars

\* The dispatcher's call got the decode error of its own request.
C8_Witness ==
  /\ cpc[Dispatcher] = "ret"
  /\ sent[Dispatcher]
  /\ res[Dispatcher].Err = ErrUnmarshal
  /\ res[Dispatcher].city = city[Dispatcher]
  /\ wpc = "sendForecast"

\* client.Do returned a response and no error, and the worker is past the
\* switch on its status.
Answered == ~resp.isNil /\ ~resp.err /\ wpc # "log"

\* What the worker does with 404, 400 and 502: it sends the error with an
\* empty forecast and never gets to read or decode the body.
StatusClassified ==
  (Answered /\ resp.status \in ErrorStatuses) =>
    /\ wpc = "sendStatus"
    /\ workerResult(wpc, cityName, resp).Forecast = ZeroForecast
    /\ workerResult(wpc, cityName, resp).Err =
         (IF resp.status = StatusNotFound THEN ErrCityNotFound ELSE ErrExternal)

\* C9 as stated: 404 gives CityNotFound, 400 and 502 give External, with the
\* body neither read nor decoded and an empty forecast; any other status
\* leads to decoding the body.
C9_AsStated ==
  /\ StatusClassified
  /\ (Answered /\ resp.status \notin ErrorStatuses) =>
       wpc \in {"read", "decode", "sendDecodeErr", "sendForecast"}

\* C9 as amended: ...; any other status leads to reading the body, and to
\* decoding it unless the read fails (the read error is sent instead).
C9_Classified ==
  /\ StatusClassified
  /\ (Answered /\ resp.status \notin ErrorStatuses) =>
       IF ReadFails(resp.body)
         THEN wpc \in {"read", "sendReadErr"}
         ELSE wpc \in {"read", "decode", "sendDecodeErr", "sendForecast"}

\* The worker sends External for a 502 to a caller that waits for it.
C9_Witness ==
  /\ Answered
  /\ resp.status = StatusBadGateway
  /\ wpc = "sendStatus"
  /\ \E c \in Callers : cpc[c] = "recv" /\ sent[c]

\* C10: the dispatcher calls Upsert exactly once, with the message's id and
\* city and the forecast's values, for an info command whose Forecast call
\* returned no error, and not at all for one whose Forecast call returned an
\* error. Stated for the worker up and running.
C10_OneWritePerForecast ==
  ( /\ apiToken /\ ~outClosed
    /\ city[Dispatcher] # 0
    /\ cpc[Dispatcher] \in {"reply", "panic"} ) =>
    upserts[Dispatcher] =
      (IF res[Dispatcher].Err = NilErr THEN <<record(Dispatcher)>> ELSE <<>>)

\* C11: when the commit of an Upsert transaction fails, Upsert returns a
\* non-nil error: it never returns nil for a record that was not committed.
C11_CommitFailureReported ==
  \A k \in Callers :
    (spc[k] = "ins_ret" /\ txs[k] = "commitFailed") => ret[k].err # NoErr

\* C12: when the query of a Stat call succeeded and the commit of its
\* transaction fails, Stat returns a non-nil error.
C12_StatCommitFailureReported ==
  \A k \in Callers :
    (spc[k] = "st_ret" /\ txs[k] = "commitFailed") => ret[k].err # NoErr

\* C13: when the statement of an Upsert or Stat call failed and the rollback
\* failed too, the error returned carries the statement's error and the
\* rollback's error.
C13_RollbackErrorJoined ==
  \A k \in Callers :
    (spc[k] \in {"ins_ret", "st_ret"} /\ txs[k] = "rollbackFailed") =>
      \E e \in {ErrExec, ErrCheckViolation, ErrQuery, ErrNoData} :
        ret[k].err = Join(e, ErrRollback)

\* C14: a transaction that Upsert began is finished once before Upsert
\* returns, committed when the statement succeeded and rolled back when it
\* failed; the table changes only by the commit of an Upsert that returns
\* nil, which appends its record.
C14_TxFinishedOnce ==
  /\ [](\A k \in Callers :
          spc[k] = "ins_ret" =>
            /\ txs[k] # "twice"
            /\ (txs[k] = "none") <=> (ret[k].err = ErrBeginTx)
            /\ (ret[k].err = NoErr) => txs[k] \in {"committed", "commitFailed"}
            /\ (ret[k].err \notin {NoErr, ErrBeginTx}) =>
                  txs[k] \in {"rolledBack", "rollbackFailed"})
  /\ [][store' # store =>
          \E k \in Callers :
            /\ spc[k] = "ins_defer" /\ spc'[k] = "ins_ret"
            /\ ret'[k].err = NoErr
            /\ txs'[k] = "committed"
            /\ store' = Append(store, rec[k])]_vars

\* An Upsert has returned an error after its rollback, another has committed.
C14_Witness ==
  /\ store # <<>>
  /\ \E k \in Callers :
       spc[k] = "ins_ret" /\ txs[k] = "rolledBack" /\ ret[k].err # NoErr

\* C15: at most one Stat caller is between r.mtx.Lock() and the end of the
\* scan of its row.
C15_OneStatQuery ==
  Cardinality({ k \in Callers : spc[k] \in {"st_locked", "st_query"} }) <= 1

\* A Stat call has issued its query while another waits for the mutex.
C15_Witness ==
  \E k, j \in Callers : spc[k] = "st_query" /\ spc[j] = "st_tx"

\* A Stat call has returned and its query had run.
statReturned(k) == spc[k] = "st_ret" /\ qres[k].ok

\* C16: Stat on a table without rows returns ErrNoData, and the statistics
\* returned with it are the zero value.
C16_NoDataOnEmptyStore ==
  \A k \in Callers :
    (statReturned(k) /\ qres[k].table = <<>>) =>
      ret[k] = [stat |-> ZeroStat, err |-> ErrNoData]

\* A Stat call whose query ran on the empty table has returned.
C16_Witness ==
  \E k \in Callers : statReturned(k) /\ qres[k].table = <<>>

\* C17: a Stat that follows one Upsert which returned nil, with no other
\* Upsert since the Stat before it, reports a total one higher than that
\* Stat did, and the same firstRecordAt when the record is not earlier than
\* the earliest one before.
C17_TotalGrowsByOne ==
  [][\A k \in Callers :
       ( /\ spc[k] = "st_locked" /\ spc'[k] = "st_query"
         /\ qres'[k].ok
         /\ obs.valid /\ obs.begun = 1 /\ obs.ok
         /\ inUpsert = {} ) =>
           /\ qres'[k].row.total = obs.total + 1
           /\ (obs.total > 0 /\ obs.madeAt >= obs.first) =>
                 qres'[k].row.firstRecordAt = obs.first]_vars

\* The values of a metric in a table, and the cities that hold a value.
valuesOf(table, metric) == { table[i][metric] : i \in DOMAIN table }
holders(table, metric, v) ==
  { table[i].City : i \in { j \in DOMAIN table : table[j][metric] = v } }
roundedHolders(table, metric, v) ==
  { table[i].City : i \in { j \in DOMAIN table : Numeric2(table[j][metric]) = v } }

\* C18 as stated: for a table with rows, Stat reports for each metric the
\* highest value stored and a city with a row of exactly that value.
C18_AsStated ==
  \A k \in Callers :
    (statReturned(k) /\ qres[k].table # <<>>) =>
      LET t == qres[k].table
          st == ret[k].stat
      IN  /\ ret[k].err = NoErr
          /\ st.maxTemp = SetMax(valuesOf(t, "Temp"))
          /\ st.maxTempCity \in holders(t, "Temp", st.maxTemp)
          /\ st.maxHum = SetMax(valuesOf(t, "Hum"))
          /\ st.maxHumCity \in holders(t, "Hum", st.maxHum)
          /\ st.maxWind = SetMax(valuesOf(t, "Wind"))
          /\ st.maxWindCity \in holders(t, "Wind", st.maxWind)

\* C18: for a table with rows, Stat reports for each metric the highest value
\* stored rounded to two decimals, and a city with a row whose value rounds
\* to it.
C18_RoundedMaxima ==
  \A k \in Callers :
    (statReturned(k) /\ qres[k].table # <<>>) =>
      LET t == qres[k].table
          st == ret[k].stat
          rounded(m) == ((SetMax(valuesOf(t, m)) + 5) \div 10) * 10
      IN  /\ ret[k].err = NoErr
          /\ st.maxTemp = rounded("Temp")
          /\ st.maxTempCity \in roundedHolders(t, "Temp", st.maxTemp)
          /\ st.maxHum = rounded("Hum")
          /\ st.maxHumCity \in roundedHolders(t, "Hum", st.maxHum)
          /\ st.maxWind = rounded("Wind")
          /\ st.maxWindCity \in roundedHolders(t, "Wind", st.maxWind)

\* Stat has returned the statistics of the test data's rows A and B: A holds
\* the temperature, B the humidity.
C18_Witness ==
  \E k \in Callers :
    /\ statReturned(k) /\ Len(qres[k].table) = 2
    /\ ret[k].stat.maxTempCity = "A" /\ ret[k].stat.maxTemp = 30000
    /\ ret[k].stat.maxHumCity = "B" /\ ret[k].stat.maxHum = 90000

\* C19: for a table with rows, in whatever order they were inserted, Stat
\* reports their number as total and their earliest MadeAt as firstRecordAt.
C19_TotalAndFirst ==
  \A k \in Callers :
    (statReturned(k) /\ qres[k].table # <<>>) =>
      LET t == qres[k].table
          st == ret[k].stat
      IN  /\ ret[k].err = NoErr
          /\ st.total = Len(t)
          /\ \E i \in DOMAIN t : st.firstRecordAt = t[i].MadeAt
          /\ \A i \in DOMAIN t : st.firstRecordAt <= t[i].MadeAt

\* Stat has returned for a table whose later record was inserted first.
C19_Witness ==
  \E k \in Callers :
    /\ statReturned(k) /\ Len(qres[k].table) = 2
    /\ qres[k].table[1].MadeAt > qres[k].table[2].MadeAt
    /\ ret[k].stat.total = 2

\* C20: a record with an empty city, or with humidity or wind not above
\* zero, is refused before the INSERT statement is attempted: the statement
\* never runs for it.
C20_ValidationBeforeInsert ==
  \A k \in Callers : spc[k] = "ins_defer" => forecastsChecks(rec[k])

\* C21: every row of the table has a city that is not empty, humidity above
\* zero and wind above zero, whatever records Upsert was called with.
C21_StoredRecordsValid ==
  \A i \in DOMAIN store : forecastsChecks(store[i])

\* The table holds a row and an Upsert of a record the CHECKs reject has
\* returned.
C21_Witness ==
  /\ store # <<>>
  /\ \E k \in Callers :
       spc[k] = "ins_ret" /\ txs[k] # "none" /\ ~forecastsChecks(rec[k])

\* C22: what Stat reports is computed from committed rows only: the total is
\* the number of rows committed when the query ran and the holders are
\* cities of those rows, while rows of open or rolled-back transactions are
\* left out.
C22_CommittedOnly ==
  [][\A k \in Callers :
       (spc[k] = "st_locked" /\ spc'[k] = "st_query" /\ qres'[k].ok) =>
         LET r == qres'[k].row
             cities == { store[i].City : i \in DOMAIN store }
         IN  /\ r.total = Len(store)
             /\ store # <<>> =>
                   {r.maxTempCity, r.maxHumCity, r.maxWindCity} \subseteq cities]_vars

\* A Stat query has run on a table with a row while another transaction had
\* inserted a row of another city and not committed it.
C22_Witness ==
  \E k, j \in Callers :
    /\ spc[k] = "st_query" /\ qres[k].ok /\ qres[k].n = 1
    /\ spc[j] = "ins_defer" /\ err[j] = NoErr
    /\ \A i \in DOMAIN qres[k].table : qres[k].table[i].City # rec[j].City

\* C23: no step removes or changes a row: a step leaves the table as it is
\* or appends one row, and the steps of Stat leave it as it is.
C23_StoreGrowsOnly ==
  [][/\ \/ store' = store
        \/ \E f \in WeatherForecasts : store' = Append(store, f)
     /\ \A k \in Callers :
          (spc[k] \in {"st_tx", "st_locked", "st_query", "st_defer", "st_ret"}
            /\ spc'[k] # spc[k]) => store' = store]_vars

\* The table holds two rows and a Stat call has returned an error after its
\* rollback.
C23_Witness ==
  /\ Len(store) = 2
  /\ \E k \in Callers :
       spc[k] = "st_ret" /\ txs[k] \in {"rolledBack", "rollbackFailed"}

\* The callers inside Forecast.
inForecast == { c \in Callers : cpc[c] \in {"select", "recv"} }

\* C24: the dispatcher handles one update after the other: two Forecast
\* calls are never outstanding together, and when Forecast, Upsert or Stat is
\* called no Forecast call is outstanding.
C24_SequentialDispatcher ==
  /\ [](Cardinality(inForecast) <= 1)
  /\ [][( \/ nmsg' # nmsg
          \/ \E c \in Callers : Len(upserts'[c]) > Len(upserts[c])
          \/ \E c \in Callers : cpc[c] = "idle" /\ cpc'[c] = "stat" ) =>
            inForecast = {}]_vars

\* The dispatcher is inside its second Forecast call.
C24_Witness ==
  /\ cpc[Dispatcher] \in {"select", "recv"}
  /\ msgID[Dispatcher] = 2

\* The dispatcher is about to reply to an info command.
infoReply(c) == cpc[c] = "reply" /\ city[c] # 0

\* C25: the reply to an info command follows from what Forecast returned:
\* the unknown-city text for ErrCityNotFound, the forecast-error text for
\* ErrExternal and ErrCorruptedCall, the internal-error text for any other
\* error, and the rendered forecast only for a nil error.
C25_InfoReply ==
  infoReply(Dispatcher) =>
    LET e == res[Dispatcher].Err
    IN  reply[Dispatcher] =
          CASE e = NilErr -> "forecast"
            [] e = ErrCityNotFound -> "unknown city, try again"
            [] e \in {ErrExternal, ErrCorruptedCall} -> "forecast error, try again"
            [] OTHER -> "internal error, try again"

\* The reply to an info command whose Forecast returned ErrExternal.
C25_Witness ==
  infoReply(Dispatcher) /\ res[Dispatcher].Err = ErrExternal

\* The dispatcher is about to reply to a stat command.
statReply(c) == cpc[c] = "reply" /\ city[c] = 0

\* C26: the reply to a stat command is the no-data text exactly when Stat
\* returned ErrNoData, the could-not-stat text for every other error, and
\* the rendered statistics only for a nil error.
C26_StatReply ==
  statReply(Dispatcher) =>
    LET e == ret[Dispatcher].err
    IN  reply[Dispatcher] =
          CASE e = NoErr -> "stat"
            [] e = ErrNoData -> "no stat data"
            [] OTHER -> "could not stat, try again"

\* The reply to a stat command on the empty table.
C26_Witness ==
  statReply(Dispatcher) /\ ret[Dispatcher].err = ErrNoData

\* C27: for a city name it has taken the worker writes one result before it
\* takes the next: it writes no second result after a decode error, and it
\* does not end without a result after a transport failure.
C27_OneResultPerRequest ==
  /\ [][(wpc = "sendForecast" /\ wpc' # wpc) =>
          Unmarshal(resp.body, cityName).ok]_vars
  /\ [](~(wpc = "panic" /\ resp = TransportFailure))

\* C28: with an API token and contexts that are never cancelled, every
\* Forecast call returns, whatever the provider answers.
C28_NoStuck ==
  (apiToken /\ [](~appCtx /\ \A c \in Callers : ~ctx[c])) =>
    \A c \in Callers : (cpc[c] = "select") ~> (cpc[c] \in {"ret", "idle"})

\* C29: while no call has skipped its send and the response channel is
\* open, at most one caller has sent its city and waits for the result, and
\* every call returns the result computed for its own city.
C29_OwnResultWithoutCancel ==
  ~skipped =>
    /\ Cardinality({ c \in Callers : cpc[c] = "recv" /\ sent[c] }) <= 1
    /\ ~outClosed =>
          \A c \in Callers : cpc[c] = "ret" => res[c].city = city[c]

\* A caller has its own result while another still offers its city name, and
\* no context was cancelled.
C29_Witness ==
  /\ ~skipped /\ ~outClosed /\ ~appCtx
  /\ \E c, d \in Callers :
       /\ cpc[c] = "ret" /\ res[c].city = city[c] /\ res[c].Err = NilErr
       /\ cpc[d] = "select" /\ ~ctx[d]

\* The result of a decoded body, stamped.
decodedForecast(r) ==
  \E body \in Bodies :
    /\ Unmarshal(body, r.city).ok
    /\ r.Forecast = Stamp(Unmarshal(body, r.city).forecast)

\* C30: a Forecast call that returns a nil error returns the decoded body of
\* a provider response with its MadeAt set, never an empty or undecoded
\* forecast.
C30_NilErrorMeansDecoded ==
  \A c \in Callers :
    (cpc[c] = "ret" /\ res[c].Err = NilErr) => decodedForecast(res[c])

\* The callers whose transaction holds a connection of the pool.
holdingConn ==
  { k \in Callers :
      spc[k] \in {"ins_tx", "ins_defer", "st_tx", "st_locked", "st_query", "st_defer"} }

\* C31: with a pool of any size from one connection on, no interleaving of
\* Upsert and Stat calls deadlocks: the mutex is held only by a Stat call
\* that holds a connection and is given up before that call's commit or
\* rollback, a taken mutex is released, an exhausted pool gets a connection
\* back, and every call that has begun its transaction returns.
C31_NoDeadlock ==
  /\ [](/\ conns = Cardinality(holdingConn)
        /\ conns <= maxConns
        /\ mtx # 0 => spc[mtx] \in {"st_locked", "st_query"}
        /\ \A k \in Callers : spc[k] \in {"st_defer", "st_ret"} => mtx # k)
  /\ (mtx # 0) ~> (mtx = 0)
  /\ (maxConns > 0 /\ conns = maxConns) ~> (conns < maxConns)
  /\ \A k \in Callers : (k \in holdingConn) ~> (spc[k] \in {"ins_ret", "st_ret"})

\* The pool is exhausted, a Stat call holds the mutex, and another Stat call
\* that holds a connection waits for the mutex.
C31_Witness ==
  /\ maxConns > 0
  /\ conns = maxConns
  /\ mtx # 0
  /\ \E j \in Callers : spc[j] = "st_tx" /\ mtx # j

\* C32: a Get call returns a nil error only with a pool that was created and
\* pinged.
C32_NilErrorMeansPingedPool ==
  \A k \in Callers :
    (gpc[k] = "ret" /\ gret[k].err = NoErr) => gret[k].pool = "pinged"
====
